---- MODULE Spec2Model ----
(***************************************************************************)
(* State-machine model of the helix-pdf-signer viewer: the document-load   *)
(* hook (usePDFDocument), the field list (useSignatureFields), the         *)
(* signature ledger and dialog (useSignatureCapture, SignatureDialog),     *)
(* the completion/navigation tracker (useSignatureStatus) and the export   *)
(* (getSignatures / createPSPDFKitInstantJSON), as composed by PDFViewer.  *)
(*                                                                         *)
(* React state setters called inside one handler or effect are batched,    *)
(* and the effects that a render triggers run before the next event, so    *)
(* every action below is one event together with the effects it causes.    *)
(***************************************************************************)
EXTENDS Integers, Sequences, FiniteSets, TLC

VARIABLES
  mounted,          \* the PDFViewer component instance is mounted
  documentUrl,      \* props.documentUrl
  document,         \* usePDFDocument: document (NoDoc = null, else the pdf object of a load)
  numPages,         \* usePDFDocument: numPages
  isLoading,        \* usePDFDocument: isLoading
  error,            \* usePDFDocument: error ("" = null)
  loads,            \* one record per run of the load effect: its closure variables and its promise
                    \* (url: what the pending getDocument is fetching, NoUrl once it has settled;
                    \*  late: the promise settled after the effect had been cleaned up)
  cur,              \* the load effect whose cleanup is registered (0 = none)
  destroyed,        \* documents on which destroy() has been called
  signatureFields,  \* useSignatureFields: signatureFields
  fieldsPending,    \* useSignatureFields: document whose extraction is in flight and not cancelled
  isDialogOpen,     \* useSignatureCapture: isDialogOpen
  currentField,     \* useSignatureCapture: currentField ("" = null, else the field's id)
  signatures,       \* useSignatureCapture: signatures, a Map kept in insertion order
  currentIndex,     \* useSignatureStatus: currentIndex
  allSigned,        \* useSignatureStatus: allSigned
  pageNumber,       \* PDFViewer: pageNumber
  pageDimensions,   \* PDFViewer: pageDimensions, page number -> height (0 = never observed)
  pageRendered,     \* PDFPage: pageDimensions is non-null
  mode,             \* SignatureDialog: mode
  preview,          \* SignatureDialog: preview ("" = null, else the captured data's type)
  onErrorCalls,     \* times props.onError has been invoked with the error currently held
  allowedDomains,   \* pdf-utils: the module-level array ALLOWED_DOMAINS
  nodeEnv,          \* process.env.NODE_ENV
  call              \* the last call of a validation utility: its input and what it returned

hookVars == <<document, numPages, isLoading, error>>
loadVars == <<loads, cur, destroyed>>
fieldVars == <<signatureFields, fieldsPending>>
captureVars == <<isDialogOpen, currentField, signatures>>
statusVars == <<currentIndex, allSigned>>
pageVars == <<pageNumber, pageDimensions, pageRendered>>
dialogVars == <<mode, preview>>
utilVars == <<allowedDomains, nodeEnv, call>>
viewVars == <<mounted, documentUrl, hookVars, loadVars, fieldVars, captureVars,
              statusVars, pageVars, dialogVars, onErrorCalls>>
vars == <<viewVars, utilVars>>

----------------------------------------------------------------------------
(* Bounds of the model *)

\* number of runs of the load effect (mount plus URL changes)
MaxLoads == 2

\* page numbers the viewer keeps dimensions for
MaxPages == 2

----------------------------------------------------------------------------
(* Document URLs.  A URL is kept as the string's length together with what  *)
(* new URL(url, window.location.origin) makes of it; href names the string  *)
(* (abbreviated where the string is long).  A hostname is its sequence of   *)
(* dot-separated labels.                                                     *)

\* window.location.origin of the page that embeds the viewer
LocationOrigin == "https://viewer.test"

ParsedUrl(href, length, protocol, hostname, origin) ==
  [href |-> href, isString |-> TRUE, length |-> length, parses |-> TRUE,
   protocol |-> protocol, hostname |-> hostname, origin |-> origin,
   mime |-> "", param |-> "", bodyValid |-> FALSE]

\* data:<mime>[;<param>],<body>
DataUrl(href, length, mime, param, bodyValid) ==
  [href |-> href, isString |-> TRUE, length |-> length, parses |-> TRUE,
   protocol |-> "data:", hostname |-> <<>>, origin |-> "null",
   mime |-> mime, param |-> param, bodyValid |-> bodyValid]

NoUrl == [href |-> "", isString |-> TRUE, length |-> 0, parses |-> FALSE,
          protocol |-> "", hostname |-> <<>>, origin |-> "",
          mime |-> "", param |-> "", bodyValid |-> FALSE]
UrlA == ParsedUrl("https://example.com/a.pdf", 25, "https:", <<"example", "com">>,
                  "https://example.com")
UrlB == ParsedUrl("https://docs.example.com/b.pdf", 30, "https:", <<"docs", "example", "com">>,
                  "https://docs.example.com")
UrlC == ParsedUrl("https://example.com/c.pdf", 25, "https:", <<"example", "com">>,
                  "https://example.com")
UrlBad == ParsedUrl("ftp://example.com/a.pdf", 23, "ftp:", <<"example", "com">>,
                    "ftp://example.com")
Urls == {NoUrl, UrlA, UrlB, UrlC, UrlBad}

\* a PDFDocumentProxy: the load that produced it and the file it was read from
NoDoc == [id |-> 0, url |-> NoUrl]

ALLOWED_PROTOCOLS_WithHttp == {"https:", "blob:", "data:", "http:"}

ALLOWED_PROTOCOLS == {"https:", "blob:", "data:"}

\* the initial content of the module-level array, by NODE_ENV
ALLOWED_DOMAINS(env) ==
  IF env = "development" THEN <<(<<"localhost">>), <<"127", "0", "0", "1">>>> ELSE <<>>

MAX_URL_LENGTH == 2048
MAX_DATA_URL_SIZE == 10 * 1024 * 1024

\* hostname.endsWith("." + domain)
EndsWithDot(hostname, domain) ==
  /\ Len(hostname) > Len(domain)
  /\ SubSeq(hostname, Len(hostname) - Len(domain) + 1, Len(hostname)) = domain

\* url.startsWith('data:application/pdf;')
StartsWithPdf(url) == url.mime = "application/pdf" /\ url.param # ""

validateDocumentUrl(url) ==
  IF ~url.isString \/ url.length = 0 THEN FALSE
  ELSE IF url.length > MAX_URL_LENGTH THEN FALSE
  ELSE IF ~url.parses THEN FALSE
  ELSE IF url.protocol \notin ALLOWED_PROTOCOLS THEN FALSE
  ELSE IF url.protocol = "https:"
          /\ Len(allowedDomains) = 0 /\ nodeEnv # "development" THEN FALSE
  ELSE IF url.protocol = "https:"
          /\ ~(\/ Len(allowedDomains) = 0
               \/ \E i \in DOMAIN allowedDomains :
                     \/ url.hostname = allowedDomains[i]
                     \/ EndsWithDot(url.hostname, allowedDomains[i])) THEN FALSE
  ELSE IF url.protocol = "blob:" /\ url.origin # LocationOrigin THEN FALSE
  ELSE IF url.protocol = "data:" /\ ~StartsWithPdf(url) THEN FALSE
  ELSE IF url.protocol = "data:" /\ url.length > MAX_DATA_URL_SIZE THEN FALSE
  ELSE TRUE

----------------------------------------------------------------------------
(* pdf-utils: validateRect and extractSignatureFields.  An entry of a rect  *)
(* is a JavaScript value: a finite number, null, undefined or Infinity.     *)

Num(n) == [kind |-> "number", n |-> n]
Null == [kind |-> "null", n |-> 0]
Undefined == [kind |-> "undefined", n |-> 0]
Infinite == [kind |-> "Infinity", n |-> 0]
NaN == [kind |-> "NaN", n |-> 0]

\* Number(value)
Number(value) ==
  CASE value.kind = "null" -> Num(0)
    [] value.kind = "undefined" -> NaN
    [] OTHER -> value

\* an annotation's rect: an array of entries, or a value that is no array
Rect(items) == [isArray |-> TRUE, items |-> items]
NoRect == [isArray |-> FALSE, items |-> <<>>]

Abs(n) == IF n < 0 THEN -n ELSE n

MAX_COORD == 100000
MIN_DIMENSION == 10
MAX_DIMENSION == 10000

\* the validated rect, or <<>> for null
validateRect(rect) ==
  IF ~rect.isArray \/ Len(rect.items) # 4 THEN <<>>
  ELSE LET nums == [i \in 1..4 |-> Number(rect.items[i])]
           width == nums[3].n - nums[1].n
           height == nums[4].n - nums[2].n
       IN IF \E i \in 1..4 : nums[i].kind = "NaN" THEN <<>>
          ELSE IF \E i \in 1..4 : nums[i].kind = "Infinity" \/ Abs(nums[i].n) > MAX_COORD
               THEN <<>>
          ELSE IF width <= 0 \/ height <= 0 THEN <<>>
          ELSE IF width < MIN_DIMENSION \/ height < MIN_DIMENSION THEN <<>>
          ELSE IF width > MAX_DIMENSION \/ height > MAX_DIMENSION THEN <<>>
          ELSE [i \in 1..4 |-> nums[i].n]

\* an annotation as page.getAnnotations() reports it; required is "true",
\* "false" or "undefined"
Annotation(subtype, fieldType, rect, required) ==
  [subtype |-> subtype, fieldType |-> fieldType, rect |-> rect, required |-> required]

Field(id, pageIndex, boundingBox, required) ==
  [id |-> id, pageIndex |-> pageIndex, boundingBox |-> boundingBox,
   required |-> required, signedBy |-> FALSE]

\* the fields of page i: the forEach over the page's Widget/Sig annotations
FieldsOfPage(i, annotations) ==
  LET widgets == SelectSeq(annotations,
                            LAMBDA ann : ann.subtype = "Widget" /\ ann.fieldType = "Sig")
      F[idx \in 0..Len(widgets)] ==
        IF idx = 0 THEN <<>>
        ELSE LET ann == widgets[idx]
                 validatedRect == validateRect(ann.rect)
             IN IF validatedRect = <<>> THEN F[idx - 1]
                ELSE Append(F[idx - 1],
                       Field("sig-" \o ToString(i) \o "-" \o ToString(idx - 1), i - 1,
                             [x |-> validatedRect[1], y |-> validatedRect[2],
                              width |-> validatedRect[3] - validatedRect[1],
                              height |-> validatedRect[4] - validatedRect[2]],
                             IF ann.required \in {"true", "false"}
                             THEN ann.required = "true" ELSE TRUE))
  IN F[Len(widgets)]

\* a PDFDocumentProxy's content: numPages, and the annotations of each page
extractSignatureFields(pdfDocument) ==
  LET allFields[i \in 0..pdfDocument.numPages] ==
        IF i = 0 THEN <<>>
        ELSE allFields[i - 1] \o FieldsOfPage(i, pdfDocument.pages[i])
  IN allFields[pdfDocument.numPages]

\* the PDF behind each URL
PdfOfUrl(url) ==
  CASE url = UrlA ->
         [numPages |-> 2, height |-> 842,
          pages |-> << <<Annotation("Widget", "Sig",
                                    Rect(<<Num(100), Num(600), Num(300), Num(650)>>), "true")>>,
                       <<Annotation("Link", "", Rect(<<Num(0), Num(0), Num(50), Num(20)>>),
                                    "undefined"),
                         Annotation("Widget", "Sig",
                                    Rect(<<Num(60), Num(100), Num(260), Num(160)>>), "false")>> >>]
    [] url = UrlB ->
         [numPages |-> 1, height |-> 842,
          pages |-> << <<Annotation("Widget", "Sig",
                                    Rect(<<Num(72), Num(72), Num(272), Num(122)>>),
                                    "undefined")>> >>]
    [] url = UrlC ->
         [numPages |-> 2, height |-> 1191,
          pages |-> << <<>>,
                       <<Annotation("Widget", "Sig",
                                    Rect(<<Num(80), Num(900), Num(280), Num(960)>>), "false")>> >>]
    [] OTHER -> [numPages |-> 2, height |-> 842, pages |-> << <<>>, <<>> >>]

\* what extractSignatureFields yields for the PDF behind each URL
FieldsOfUrl(url) == extractSignatureFields(PdfOfUrl(url))

NumPagesOfUrl(url) == PdfOfUrl(url).numPages

\* viewport height of a page of the PDF behind a URL
PageHeightOfUrl(url, page) == PdfOfUrl(url).height

FieldIds == {"sig-1-0", "sig-2-0"}
InitialPages == {1, 2}

----------------------------------------------------------------------------
(* Sequence helpers *)

Range(s) == {s[i] : i \in DOMAIN s}
Ids(fields) == {fields[i].id : i \in DOMAIN fields}
Keys(sigs) == {sigs[i].id : i \in DOMAIN sigs}

\* Array.prototype.findIndex, 0-based, -1 when absent
FindIndex(fields, id) ==
  IF \E i \in DOMAIN fields : fields[i].id = id
  THEN (CHOOSE i \in DOMAIN fields :
          fields[i].id = id /\ \A j \in 1..(i - 1) : fields[j].id # id) - 1
  ELSE -1

----------------------------------------------------------------------------
(* useSignatureStatus: completion and navigation *)

NoField == [id |-> "", index |-> -1, pageIndex |-> -1]

\* variant: the completion test without the "at least one required field" conjunct
AllSignedOf_Vacuous(fields, signedFieldIds) ==
  LET signedCount == Cardinality(signedFieldIds)
      requiredCount == Len(SelectSeq(fields, LAMBDA f : f.required))
  IN signedCount >= requiredCount

AllSignedOf(fields, signedFieldIds) ==
  LET signedCount == Cardinality(signedFieldIds)
      requiredCount == Len(SelectSeq(fields, LAMBDA f : f.required))
  IN signedCount >= requiredCount /\ requiredCount > 0

\* variant: takes the last unsigned field instead of the first
nextSignature_Last(fields, signedFieldIds) ==
  LET unsignedFields == SelectSeq(fields, LAMBDA f : f.id \notin signedFieldIds)
  IN IF Len(unsignedFields) > 0
     THEN [id |-> unsignedFields[Len(unsignedFields)].id,
           index |-> FindIndex(fields, unsignedFields[Len(unsignedFields)].id),
           pageIndex |-> unsignedFields[Len(unsignedFields)].pageIndex]
     ELSE NoField

nextSignature(fields, signedFieldIds) ==
  LET unsignedFields == SelectSeq(fields, LAMBDA f : f.id \notin signedFieldIds)
  IN IF Len(unsignedFields) > 0
     THEN [id |-> unsignedFields[1].id,
           index |-> FindIndex(fields, unsignedFields[1].id),
           pageIndex |-> unsignedFields[1].pageIndex]
     ELSE NoField

\* variant: takes the first signed field instead of the last
previousSignature_First(fields, signedFieldIds) ==
  LET signedFields == SelectSeq(fields, LAMBDA f : f.id \in signedFieldIds)
  IN IF Len(signedFields) > 0
     THEN [id |-> signedFields[1].id,
           index |-> FindIndex(fields, signedFields[1].id),
           pageIndex |-> signedFields[1].pageIndex]
     ELSE NoField

previousSignature(fields, signedFieldIds) ==
  LET signedFields == SelectSeq(fields, LAMBDA f : f.id \in signedFieldIds)
  IN IF Len(signedFields) > 0
     THEN [id |-> signedFields[Len(signedFields)].id,
           index |-> FindIndex(fields, signedFields[Len(signedFields)].id),
           pageIndex |-> signedFields[Len(signedFields)].pageIndex]
     ELSE NoField

----------------------------------------------------------------------------
(* useSignatureCapture: the ledger *)

hasSignature(sigs, fieldId) == fieldId \in Keys(sigs)

\* Map.set: an existing key keeps its position, a new key is appended
MapSet(sigs, fieldId, data) ==
  IF fieldId \in Keys(sigs)
  THEN [i \in DOMAIN sigs |->
          IF sigs[i].id = fieldId THEN [id |-> fieldId, data |-> data] ELSE sigs[i]]
  ELSE Append(sigs, [id |-> fieldId, data |-> data])

\* Map.delete
MapDelete(sigs, fieldId) == SelectSeq(sigs, LAMBDA e : e.id # fieldId)

\* useSignatureFields.updateField with {signedBy, signedAt}
updateField(fields, fieldId) ==
  [i \in DOMAIN fields |->
     IF fields[i].id = fieldId THEN [fields[i] EXCEPT !.signedBy = TRUE] ELSE fields[i]]

----------------------------------------------------------------------------
(* usePDFDocument: the load effect and its cleanup *)

InvalidUrlError == "Invalid or unauthorized document URL"
LoadError == "Failed to load PDF"

\* the effect body for a new documentUrl; h is the hook state before it
RunLoadEffect(url, ls, h) ==
  IF url.href = ""
  THEN [loads |-> ls, cur |-> 0,
        hook |-> [h EXCEPT !.isLoading = FALSE]]
  ELSE IF ~validateDocumentUrl(url)
  THEN [loads |-> Append(ls, [url |-> NoUrl, cancelled |-> FALSE, loadedDocument |-> 0,
                              status |-> "rejected", late |-> FALSE]),
        cur |-> Len(ls) + 1,
        hook |-> [h EXCEPT !.isLoading = FALSE, !.error = InvalidUrlError]]
  ELSE [loads |-> Append(ls, [url |-> url, cancelled |-> FALSE, loadedDocument |-> 0,
                              status |-> "pending", late |-> FALSE]),
        cur |-> Len(ls) + 1,
        hook |-> [h EXCEPT !.isLoading = TRUE, !.error = ""]]

\* PDFViewer's effect on [error, onError]: it runs when either changed and
\* calls onError if an error is held; calls counts the calls made so far
\* with the error held before
RunErrorEffect(errorChanged, onErrorChanged, err, calls) ==
  IF errorChanged
  THEN (IF err # "" THEN 1 ELSE 0)
  ELSE IF onErrorChanged /\ err # "" THEN calls + 1
  ELSE calls

\* variant: the result is published without looking at the cancelled flag
Publishes_Always(load) == TRUE

\* variant: a settling load never publishes its result
Publishes_Never(load) == FALSE

\* if (!cancelled): whether a settling load publishes its result
Publishes(load) == ~load.cancelled

\* variant: a document that arrives after cancellation is left alone
DestroyLate_Never(l) == {}

\* the else branch of the resolved load: pdf.destroy()
DestroyLate(l) == {l}

\* variant: the cleanup only sets the cancelled flag
CleanupDestroys_Nothing(ls, c) == {}

\* documents the cleanup of effect c destroys
CleanupDestroys(ls, c) ==
  IF c # 0 /\ ls[c].loadedDocument # 0 THEN {ls[c].loadedDocument} ELSE {}

\* the cleanup function returned by effect c
RunCleanup(ls, c) ==
  IF c = 0 THEN ls
  ELSE [ls EXCEPT ![c].cancelled = TRUE, ![c].loadedDocument = 0]

Hook == [document |-> document, numPages |-> numPages,
         isLoading |-> isLoading, error |-> error]

\* PDFViewer renders the toolbar, page and dialog only past its two early returns
Rendered == mounted /\ ~isLoading /\ error = ""

\* whether the viewer is past its early returns in the next state
RenderedNext == mounted' /\ ~isLoading' /\ error' = ""

\* PDFPage and SignatureDialog are unmounted, and lose their local state,
\* whenever the viewer renders its loading or error placeholder instead
Subtree(pr, m, p) ==
  /\ pageRendered' = (RenderedNext /\ pr)
  /\ mode' = IF RenderedNext THEN m ELSE "draw"
  /\ preview' = IF RenderedNext THEN p ELSE ""

----------------------------------------------------------------------------
(* Initial state: the viewer has mounted and its effects have run once *)

\* a call of a utility: the function, its argument, whether it has returned
\* and what it returned
NoCall == [fn |-> "", input |-> <<>>, returned |-> FALSE, result |-> <<>>]

Pending(fn, input) == [fn |-> fn, input |-> input, returned |-> FALSE, result |-> <<>>]

Returns(result) ==
  /\ ~call.returned
  /\ call' = [call EXCEPT !.returned = TRUE, !.result = result]

Init ==
  \E url \in Urls, initialPage \in InitialPages :
    LET e == RunLoadEffect(url, <<>>,
               [document |-> NoDoc, numPages |-> 0, isLoading |-> TRUE, error |-> ""])
    IN /\ nodeEnv = "production"
       /\ allowedDomains = Append(ALLOWED_DOMAINS("production"), <<"example", "com">>)
       /\ call = NoCall
       /\ mounted = TRUE
       /\ documentUrl = url
       /\ document = e.hook.document
       /\ numPages = e.hook.numPages
       /\ isLoading = e.hook.isLoading
       /\ error = e.hook.error
       /\ loads = e.loads
       /\ cur = e.cur
       /\ destroyed = {}
       /\ signatureFields = <<>>
       /\ fieldsPending = NoDoc
       /\ isDialogOpen = FALSE
       /\ currentField = ""
       /\ signatures = <<>>
       /\ currentIndex = 0
       /\ allSigned = AllSignedOf(<<>>, {})
       /\ pageNumber = initialPage
       /\ pageDimensions = [p \in 1..MaxPages |-> 0]
       /\ pageRendered = FALSE
       /\ mode = "draw"
       /\ preview = ""
       /\ onErrorCalls = RunErrorEffect(TRUE, TRUE, e.hook.error, 0)

----------------------------------------------------------------------------
(* The host application changes props.documentUrl, or unmounts the viewer *)

SetDocumentUrl(url) ==
  /\ mounted
  /\ url # documentUrl
  /\ url.href # "" => Len(loads) < MaxLoads
  /\ LET e == RunLoadEffect(url, RunCleanup(loads, cur), Hook)
     IN /\ documentUrl' = url
        /\ destroyed' = destroyed \cup CleanupDestroys(loads, cur)
        /\ loads' = e.loads
        /\ cur' = e.cur
        /\ document' = e.hook.document
        /\ numPages' = e.hook.numPages
        /\ isLoading' = e.hook.isLoading
        /\ error' = e.hook.error
        /\ onErrorCalls' = RunErrorEffect(url.href # "", FALSE, e.hook.error, onErrorCalls)
  /\ UNCHANGED <<utilVars, mounted, fieldVars, captureVars, statusVars, pageNumber, pageDimensions>>
  /\ Subtree(pageRendered, mode, preview)

\* the component's state is discarded with the instance; what outlives it are
\* the load promises still pending and the documents they produce
Unmount ==
  /\ mounted
  /\ mounted' = FALSE
  /\ destroyed' = destroyed \cup CleanupDestroys(loads, cur)
  /\ loads' = RunCleanup(loads, cur)
  /\ cur' = 0
  /\ documentUrl' = NoUrl
  /\ document' = NoDoc
  /\ numPages' = 0
  /\ isLoading' = TRUE
  /\ error' = ""
  /\ signatureFields' = <<>>
  /\ fieldsPending' = NoDoc
  /\ isDialogOpen' = FALSE
  /\ currentField' = ""
  /\ signatures' = <<>>
  /\ currentIndex' = 0
  /\ allSigned' = FALSE
  /\ pageNumber' = 1
  /\ pageDimensions' = [p \in 1..MaxPages |-> 0]
  /\ pageRendered' = FALSE
  /\ mode' = "draw"
  /\ preview' = ""
  /\ onErrorCalls' = 0
  /\ UNCHANGED utilVars

\* bound on the onError calls counted for one error
MaxErrorCalls == 2

\* the host re-renders and passes a new function as props.onError (an inline
\* arrow function is a new function on every render of the host)
HostRerender ==
  /\ mounted
  /\ onErrorCalls < MaxErrorCalls
  /\ onErrorCalls' = RunErrorEffect(FALSE, TRUE, error, onErrorCalls)
  /\ onErrorCalls' # onErrorCalls
  /\ UNCHANGED <<utilVars, mounted, documentUrl, hookVars, loadVars, fieldVars, captureVars,
                 statusVars, pageVars, dialogVars>>

----------------------------------------------------------------------------
(* The promise of pdfjs.getDocument settles *)

LoadResolve(l) ==
  /\ l \in DOMAIN loads
  /\ loads[l].status = "pending"
  /\ IF Publishes(loads[l])
     THEN /\ loads' = [loads EXCEPT ![l].status = "resolved", ![l].url = NoUrl,
                                     ![l].late = loads[l].cancelled,
                                     ![l].loadedDocument = l]
          /\ document' = [id |-> l, url |-> loads[l].url]
          /\ numPages' = NumPagesOfUrl(loads[l].url)
          /\ isLoading' = FALSE
          /\ fieldsPending' = IF mounted THEN document' ELSE NoDoc
          /\ UNCHANGED <<error, destroyed>>
     ELSE /\ loads' = [loads EXCEPT ![l].status = "resolved", ![l].url = NoUrl,
                                     ![l].late = loads[l].cancelled]
          /\ destroyed' = destroyed \cup DestroyLate(l)
          /\ UNCHANGED <<hookVars, fieldsPending>>
  /\ UNCHANGED <<utilVars, onErrorCalls, mounted, documentUrl, cur, signatureFields, captureVars, statusVars,
                 pageNumber, pageDimensions>>
  /\ Subtree(pageRendered, mode, preview)

LoadReject(l) ==
  /\ l \in DOMAIN loads
  /\ loads[l].status = "pending"
  /\ loads' = [loads EXCEPT ![l].status = "rejected", ![l].url = NoUrl,
                            ![l].late = loads[l].cancelled]
  /\ IF Publishes(loads[l])
     THEN /\ error' = LoadError
          /\ isLoading' = FALSE
          /\ onErrorCalls' = RunErrorEffect(TRUE, FALSE, LoadError, onErrorCalls)
          /\ UNCHANGED <<document, numPages>>
     ELSE UNCHANGED <<hookVars, onErrorCalls>>
  /\ UNCHANGED <<utilVars, mounted, documentUrl, cur, destroyed, fieldVars, captureVars, statusVars,
                 pageNumber, pageDimensions>>
  /\ Subtree(pageRendered, mode, preview)

----------------------------------------------------------------------------
(* useSignatureFields: the extraction started for the current document settles. *)
(* getPage/getAnnotations of a destroyed document reject, so only a live       *)
(* document yields its fields.                                                 *)

FieldsLoaded ==
  /\ mounted
  /\ fieldsPending # NoDoc
  /\ fieldsPending.id \notin destroyed
  /\ signatureFields' = FieldsOfUrl(fieldsPending.url)
  /\ fieldsPending' = NoDoc
  /\ allSigned' = AllSignedOf(signatureFields', Keys(signatures))
  /\ UNCHANGED <<utilVars, onErrorCalls, mounted, documentUrl, hookVars, loadVars, captureVars, currentIndex, pageVars, dialogVars>>

FieldsFailed ==
  /\ mounted
  /\ fieldsPending # NoDoc
  /\ fieldsPending' = NoDoc
  /\ UNCHANGED <<utilVars, onErrorCalls, mounted, documentUrl, hookVars, loadVars, signatureFields, captureVars,
                 statusVars, pageVars, dialogVars>>

----------------------------------------------------------------------------
(* PDFPage and Toolbar *)

Min(a, b) == IF a < b THEN a ELSE b
Max(a, b) == IF a > b THEN a ELSE b

\* react-pdf reports the page it rendered; the viewer records its height
PageLoad ==
  /\ Rendered
  /\ validateDocumentUrl(documentUrl)
  /\ pageNumber \in 1..NumPagesOfUrl(documentUrl)
  /\ pageRendered' = TRUE
  /\ pageDimensions' = [pageDimensions EXCEPT
                          ![pageNumber] = PageHeightOfUrl(documentUrl, pageNumber)]
  /\ <<pageRendered', pageDimensions'>> # <<pageRendered, pageDimensions>>
  /\ UNCHANGED <<utilVars, onErrorCalls, mounted, documentUrl, hookVars, loadVars, fieldVars, captureVars,
                 statusVars, pageNumber, dialogVars>>

handlePreviousPage ==
  /\ Rendered
  /\ ~(pageNumber <= 1)
  /\ pageNumber' = Max(pageNumber - 1, 1)
  /\ UNCHANGED <<utilVars, onErrorCalls, mounted, documentUrl, hookVars, loadVars, fieldVars, captureVars,
                 statusVars, pageDimensions, pageRendered, dialogVars>>

handleNextPage ==
  /\ Rendered
  /\ ~(pageNumber >= numPages)
  /\ pageNumber' = Min(pageNumber + 1, numPages)
  /\ UNCHANGED <<utilVars, onErrorCalls, mounted, documentUrl, hookVars, loadVars, fieldVars, captureVars,
                 statusVars, pageDimensions, pageRendered, dialogVars>>

goToPage(page) ==
  /\ mounted
  /\ pageNumber' = Max(1, Min(page, numPages))
  /\ pageNumber' # pageNumber
  /\ UNCHANGED <<utilVars, onErrorCalls, mounted, documentUrl, hookVars, loadVars, fieldVars, captureVars,
                 statusVars, pageDimensions, pageRendered, dialogVars>>

----------------------------------------------------------------------------
(* Opening the capture dialog *)

\* useSignatureCapture.openDialog
openDialog(fieldId) ==
  /\ currentField' = fieldId
  /\ isDialogOpen' = TRUE

\* a click (or Enter/Space) on the overlay of an unsigned field of the current page
handleSignatureFieldClick(i) ==
  /\ Rendered
  /\ pageRendered
  /\ i \in DOMAIN signatureFields
  /\ signatureFields[i].pageIndex = pageNumber - 1
  /\ ~hasSignature(signatures, signatureFields[i].id)
  /\ openDialog(signatureFields[i].id)
  /\ UNCHANGED <<utilVars, onErrorCalls, mounted, documentUrl, hookVars, loadVars, fieldVars, signatures,
                 statusVars, pageVars, dialogVars>>

\* PDFViewer.handleNextSignature, whoever calls it
NextSignatureBody ==
  LET field == nextSignature(signatureFields, Keys(signatures))
  IN /\ IF field # NoField
        THEN /\ currentIndex' = field.index
             /\ pageNumber' = field.pageIndex + 1
             /\ openDialog(field.id)
        ELSE UNCHANGED <<currentIndex, pageNumber, currentField, isDialogOpen>>
     /\ UNCHANGED <<utilVars, onErrorCalls, mounted, documentUrl, hookVars, loadVars, fieldVars, signatures,
                    allSigned, pageDimensions, pageRendered, dialogVars>>

\* PDFViewer.handlePreviousSignature, whoever calls it
PreviousSignatureBody ==
  LET field == previousSignature(signatureFields, Keys(signatures))
  IN /\ IF field # NoField
        THEN /\ currentIndex' = field.index
             /\ pageNumber' = field.pageIndex + 1
        ELSE UNCHANGED <<currentIndex, pageNumber>>
     /\ UNCHANGED <<utilVars, onErrorCalls, mounted, documentUrl, hookVars, loadVars, fieldVars, captureVars,
                    allSigned, pageDimensions, pageRendered, dialogVars>>

\* the toolbar's "Next Signature" button
ToolbarNextSignature ==
  /\ Rendered
  /\ Len(signatureFields) > 0
  /\ ~(currentIndex >= Len(signatureFields) - 1)
  /\ NextSignatureBody

\* the toolbar's "Prev Signature" button
ToolbarPreviousSignature ==
  /\ Rendered
  /\ Len(signatureFields) > 0
  /\ ~(currentIndex = 0)
  /\ PreviousSignatureBody

\* ref.nextSignature()
RefNextSignature ==
  /\ mounted
  /\ NextSignatureBody

\* ref.previousSignature()
RefPreviousSignature ==
  /\ mounted
  /\ PreviousSignatureBody

----------------------------------------------------------------------------
(* SignatureDialog *)

DialogShown == Rendered /\ isDialogOpen /\ currentField # ""

\* useSignatureCapture.closeDialog
closeDialog ==
  /\ isDialogOpen' = FALSE
  /\ currentField' = ""

SetMode(m) ==
  /\ DialogShown
  /\ preview = ""
  /\ m # mode
  /\ mode' = m
  /\ UNCHANGED <<utilVars, onErrorCalls, mounted, documentUrl, hookVars, loadVars, fieldVars, captureVars,
                 statusVars, pageVars, preview>>

\* SignatureCanvas / SignatureTyped call onComplete: SignatureDialog.handleComplete
handleComplete ==
  /\ DialogShown
  /\ preview = ""
  /\ preview' = IF mode = "draw" THEN "drawn" ELSE "typed"
  /\ UNCHANGED <<utilVars, onErrorCalls, mounted, documentUrl, hookVars, loadVars, fieldVars, captureVars,
                 statusVars, pageVars, mode>>

handleEdit ==
  /\ DialogShown
  /\ preview # ""
  /\ preview' = ""
  /\ UNCHANGED <<utilVars, onErrorCalls, mounted, documentUrl, hookVars, loadVars, fieldVars, captureVars,
                 statusVars, pageVars, mode>>

handleCancel ==
  /\ DialogShown
  /\ preview' = ""
  /\ mode' = "draw"
  /\ closeDialog
  /\ UNCHANGED <<utilVars, onErrorCalls, mounted, documentUrl, hookVars, loadVars, fieldVars, signatures,
                 statusVars, pageVars>>

\* SignatureDialog.handleApply -> PDFViewer.handleSignatureComplete ->
\* applySignature, updateField, and the status effect of the next render
handleApply ==
  /\ DialogShown
  /\ preview # ""
  /\ signatures' = MapSet(signatures, currentField, [type |-> preview])
  /\ closeDialog
  /\ signatureFields' = updateField(signatureFields, currentField)
  /\ allSigned' = AllSignedOf(signatureFields', Keys(signatures'))
  /\ preview' = ""
  /\ mode' = "draw"
  /\ UNCHANGED <<utilVars, onErrorCalls, mounted, documentUrl, hookVars, loadVars, fieldsPending, currentIndex, pageVars>>

\* useSignatureCapture.clearSignature, an operation of the exported hook
clearSignature(fieldId) ==
  /\ mounted
  /\ hasSignature(signatures, fieldId)
  /\ signatures' = MapDelete(signatures, fieldId)
  /\ allSigned' = AllSignedOf(signatureFields, Keys(signatures'))
  /\ UNCHANGED <<utilVars, onErrorCalls, mounted, documentUrl, hookVars, loadVars, fieldVars, isDialogOpen,
                 currentField, currentIndex, pageVars, dialogVars>>

----------------------------------------------------------------------------
(* ref.getSignatures(): the export *)

DefaultPageHeight == 792

\* Array.prototype.find on signatureFields; 0 when no field has the id
FindField(fields, fieldId) == FindIndex(fields, fieldId) + 1

\* the .map step: null (0) for a ledger entry whose field is missing
MapEntry(entry) ==
  LET i == FindField(signatureFields, entry.id)
  IN IF i = 0 THEN [null |-> TRUE]
     ELSE [null |-> FALSE, fieldId |-> entry.id, data |-> entry.data,
           field |-> signatureFields[i],
           pageHeight |-> IF pageDimensions[signatureFields[i].pageIndex + 1] # 0
                          THEN pageDimensions[signatureFields[i].pageIndex + 1]
                          ELSE DefaultPageHeight]

\* variant: null entries are kept
FilterEntries_KeepNull(entries) == entries

\* the .filter step
FilterEntries(entries) == SelectSeq(entries, LAMBDA e : ~e.null)

\* top-left-origin box to the bottom-left-origin [left, bottom, right, top]
convertBBoxToPSPDFKit(boundingBox, pageHeight) ==
  LET pdfY == pageHeight - boundingBox.y - boundingBox.height
  IN <<boundingBox.x, pdfY, boundingBox.x + boundingBox.width, pdfY + boundingBox.height>>

createPSPDFKitAnnotation(e) ==
  LET bbox == convertBBoxToPSPDFKit(e.field.boundingBox, e.pageHeight)
  IN IF e.data.type = "drawn"
     THEN [id |-> <<e.field.id, "annotation">>, type |-> "pspdfkit/image",
           pageIndex |-> e.field.pageIndex, pageHeight |-> e.pageHeight, bbox |-> bbox,
           imageAttachmentId |-> <<e.field.id, "attachment">>]
     ELSE [id |-> <<e.field.id, "annotation">>, type |-> "pspdfkit/ink",
           pageIndex |-> e.field.pageIndex, pageHeight |-> e.pageHeight, bbox |-> bbox,
           imageAttachmentId |-> <<>>]

\* createPSPDFKitInstantJSON; destructuring a null entry is a TypeError
createPSPDFKitInstantJSON(entries) ==
  IF \E i \in DOMAIN entries : entries[i].null
  THEN [threw |-> TRUE, annotations |-> <<>>, attachments |-> {}]
  ELSE [threw |-> FALSE,
        annotations |-> [i \in DOMAIN entries |-> createPSPDFKitAnnotation(entries[i])],
        attachments |-> {createPSPDFKitAnnotation(entries[i]).imageAttachmentId :
                           i \in {j \in DOMAIN entries : entries[j].data.type = "drawn"}}]

getSignatures ==
  createPSPDFKitInstantJSON(
    FilterEntries([i \in DOMAIN signatures |-> MapEntry(signatures[i])]))

----------------------------------------------------------------------------
(* pdf-utils: documentUrlConfig and the URLs validateDocumentUrl is asked about *)

\* bound on the length of the allow-list
MaxDomains == 2

NodeEnvs == {"production", "development", "test"}

Localhost == <<"localhost">>
Loopback == <<"127", "0", "0", "1">>
Domains == {<<"example", "com">>, Localhost, Loopback}

SeqContains(seq, x) == \E i \in DOMAIN seq : seq[i] = x

\* Array.prototype.indexOf, 0-based, -1 when absent
IndexOf(seq, x) ==
  IF SeqContains(seq, x)
  THEN (CHOOSE i \in DOMAIN seq : seq[i] = x /\ \A j \in 1..(i - 1) : seq[j] # x) - 1
  ELSE -1

\* Array.prototype.splice(index, 1), index 0-based
Splice1(seq, index) ==
  [i \in 1..(Len(seq) - 1) |-> IF i <= index THEN seq[i] ELSE seq[i + 1]]

addAllowedDomain(domain) ==
  /\ Len(allowedDomains) < MaxDomains
  /\ allowedDomains' = IF ~SeqContains(allowedDomains, domain)
                       THEN Append(allowedDomains, domain)
                       ELSE allowedDomains
  /\ UNCHANGED <<viewVars, nodeEnv, call>>

removeAllowedDomain(domain) ==
  /\ LET index == IndexOf(allowedDomains, domain)
     IN allowedDomains' = IF index > -1 THEN Splice1(allowedDomains, index)
                          ELSE allowedDomains
  /\ UNCHANGED <<viewVars, nodeEnv, call>>

NotAString == [href |-> "123", isString |-> FALSE, length |-> 0, parses |-> FALSE,
               protocol |-> "", hostname |-> <<>>, origin |-> "",
               mime |-> "", param |-> "", bodyValid |-> FALSE]
Unparsable == [href |-> "https://[bad", isString |-> TRUE, length |-> 12, parses |-> FALSE,
               protocol |-> "", hostname |-> <<>>, origin |-> "",
               mime |-> "", param |-> "", bodyValid |-> FALSE]

HttpsUrls ==
  {UrlA, UrlB,
   ParsedUrl("https://example.com.evil.com/doc.pdf", 36, "https:",
             <<"example", "com", "evil", "com">>, "https://example.com.evil.com"),
   ParsedUrl("https://evilexample.com/doc.pdf", 31, "https:",
             <<"evilexample", "com">>, "https://evilexample.com"),
   ParsedUrl("https://evil.com/document.pdf", 29, "https:",
             <<"evil", "com">>, "https://evil.com"),
   ParsedUrl("https://localhost/document.pdf", 30, "https:", Localhost, "https://localhost"),
   ParsedUrl("https://127.0.0.1/document.pdf", 30, "https:", Loopback, "https://127.0.0.1"),
   \* a relative reference resolves against window.location.origin
   ParsedUrl("docs/a.pdf", 10, "https:", <<"viewer", "test">>, LocationOrigin),
   ParsedUrl("https://example.com/aaa...a (2048 characters)", 2048, "https:",
             <<"example", "com">>, "https://example.com"),
   ParsedUrl("https://example.com/aaa...a (2049 characters)", 2049, "https:",
             <<"example", "com">>, "https://example.com")}

OtherProtocolUrls ==
  {UrlBad,
   ParsedUrl("http://localhost:3000/document.pdf", 34, "http:", Localhost,
             "http://localhost:3000"),
   ParsedUrl("http://127.0.0.1:3000/document.pdf", 34, "http:", Loopback,
             "http://127.0.0.1:3000"),
   ParsedUrl("http://example.com/document.pdf", 31, "http:", <<"example", "com">>,
             "http://example.com"),
   ParsedUrl("file:///etc/passwd", 18, "file:", <<>>, "null"),
   ParsedUrl("javascript:alert(1)", 19, "javascript:", <<>>, "null"),
   ParsedUrl("blob:https://viewer.test/1b9d6bcd", 33, "blob:", <<>>, LocationOrigin),
   ParsedUrl("blob:https://evil.com/1b9d6bcd", 30, "blob:", <<>>, "https://evil.com")}

DataUrls ==
  {DataUrl("data:application/pdf;base64,JVBERi0=", 36, "application/pdf", "base64", TRUE),
   DataUrl("data:application/pdf;base64,!!!invalid!!!", 41, "application/pdf", "base64", FALSE),
   DataUrl("data:application/pdf;charset=utf-8,%PDF", 39, "application/pdf",
           "charset=utf-8", FALSE),
   DataUrl("data:application/pdf,not-base64", 31, "application/pdf", "", FALSE),
   DataUrl("data:application/pdfx;base64,JVBERi0=", 37, "application/pdfx", "base64", TRUE),
   DataUrl("data:image/png;base64,iVBORw0=", 30, "image/png", "base64", TRUE),
   DataUrl("data:text/html,<script>alert(1)</script>", 40, "text/html", "", FALSE),
   DataUrl("data:application/pdf;base64,JVBE...Cg== (1 MB)", 1024 * 1024,
           "application/pdf", "base64", TRUE),
   DataUrl("data:application/pdf;base64,JVBE...Cg== (10 MB)", 10 * 1024 * 1024,
           "application/pdf", "base64", TRUE),
   DataUrl("data:application/pdf;base64,JVBE...Cg== (10 MB + 1)", 10 * 1024 * 1024 + 1,
           "application/pdf", "base64", TRUE)}

TestUrls == HttpsUrls \cup OtherProtocolUrls \cup DataUrls \cup {NoUrl, NotAString, Unparsable}

Call_validateDocumentUrl ==
  /\ call.fn = "validateDocumentUrl"
  /\ Returns(validateDocumentUrl(call.input))
  /\ UNCHANGED <<viewVars, allowedDomains, nodeEnv>>

----------------------------------------------------------------------------

Next ==
  \/ \E url \in Urls : SetDocumentUrl(url)
  \/ Unmount
  \/ HostRerender
  \/ \E l \in DOMAIN loads : LoadResolve(l)
  \/ \E l \in DOMAIN loads : LoadReject(l)
  \/ FieldsLoaded
  \/ FieldsFailed
  \/ PageLoad
  \/ handlePreviousPage
  \/ handleNextPage
  \/ \E page \in 0..MaxPages + 1 : goToPage(page)
  \/ \E i \in DOMAIN signatureFields : handleSignatureFieldClick(i)
  \/ ToolbarNextSignature
  \/ ToolbarPreviousSignature
  \/ RefNextSignature
  \/ RefPreviousSignature
  \/ \E m \in {"draw", "type"} : SetMode(m)
  \/ handleComplete
  \/ handleEdit
  \/ handleCancel
  \/ handleApply
  \/ \E fieldId \in FieldIds : clearSignature(fieldId)

Spec == Init /\ [][Next]_vars

\* the promise of every getDocument call settles at some time
LoadSettles == \E l \in DOMAIN loads : LoadResolve(l) \/ LoadReject(l)

LiveSpec == Init /\ [][Next]_vars /\ WF_vars(LoadSettles)

----------------------------------------------------------------------------
(* SignatureTyped: sanitizeSignatureText.  A text is a sequence of characters; *)
(* TAB is U+0009 and NBSP is U+00A0.                                           *)

\* bound on the length of the short texts
MaxTextLen == 3

MAX_SIGNATURE_LENGTH == 100
MIN_SIGNATURE_LENGTH == 2

Letters == {"a", "Z"}
\* the characters of the regular-expression class \s, which are also the
\* characters String.prototype.trim removes
WhiteSpace == {" ", "TAB", "NBSP"}
\* the characters of [\x00-\x1F\x7F]
ControlChars == {"TAB"}
Alphabet == Letters \cup WhiteSpace \cup {"-", "'", ".", "1"}

Repeat(c, n) == [i \in 1..n |-> c]

Texts ==
  UNION {[1..n -> Alphabet] : n \in 0..MaxTextLen}
  \cup {Repeat("a", n) : n \in {MAX_SIGNATURE_LENGTH - 1, MAX_SIGNATURE_LENGTH,
                                 MAX_SIGNATURE_LENGTH + 1}}
  \cup {<<" ">> \o Repeat("a", MAX_SIGNATURE_LENGTH) \o <<" ">>}

\* String.prototype.trim
RECURSIVE TrimStart(_)
TrimStart(text) ==
  IF text # <<>> /\ Head(text) \in WhiteSpace THEN TrimStart(Tail(text)) ELSE text

RECURSIVE TrimEnd(_)
TrimEnd(text) ==
  IF text # <<>> /\ text[Len(text)] \in WhiteSpace
  THEN TrimEnd(SubSeq(text, 1, Len(text) - 1))
  ELSE text

Trim(text) == TrimEnd(TrimStart(text))

\* /^[a-zA-Z\s\-'.]+$/.test(text)
ALLOWED_CHARS(text) ==
  /\ Len(text) > 0
  /\ \A i \in DOMAIN text : text[i] \in Letters \cup WhiteSpace \cup {"-", "'", "."}

Thrown(message) == [ok |-> FALSE, error |-> message]

sanitizeSignatureText(text) ==
  LET trimmed == Trim(text)
  IN IF Len(trimmed) < MIN_SIGNATURE_LENGTH
     THEN Thrown("Signature must be at least 2 characters long")
     ELSE IF Len(trimmed) > MAX_SIGNATURE_LENGTH
     THEN Thrown("Signature must be 100 characters or less")
     ELSE IF ~ALLOWED_CHARS(trimmed)
     THEN Thrown("Signature can only contain letters, spaces, hyphens, apostrophes, and periods")
     ELSE IF \E i \in DOMAIN trimmed : trimmed[i] \in ControlChars
     THEN Thrown("Signature contains invalid control characters")
     ELSE [ok |-> TRUE, value |-> trimmed]

\* SignatureTyped.handleApply: a text that fails validation is shown as an
\* error and onComplete is not called
SignatureTyped_handleApply ==
  /\ call.fn = "SignatureTyped.handleApply"
  /\ Returns([sanitizedText |-> sanitizeSignatureText(call.input),
              onComplete |-> sanitizeSignatureText(call.input).ok])
  /\ UNCHANGED <<viewVars, allowedDomains, nodeEnv>>

----------------------------------------------------------------------------
(* signature-utils: validateImageDataUrl.  An input string is kept as its     *)
(* parts: "data:image/" <type> [";base64"] "," then chars characters of the   *)
(* base64 alphabet, pad "=" characters and possibly one other character.      *)

\* bound on the number of "=" characters
MaxPad == 2

ALLOWED_IMAGE_TYPES_WithSvg == {"png", "jpeg", "jpg", "gif", "webp", "svg+xml"}

ALLOWED_IMAGE_TYPES == {"png", "jpeg", "jpg", "gif", "webp"}

MAX_IMAGE_DATA_URL_SIZE == 5 * 1024 * 1024
MAX_IMAGE_SIZE == 2 * 1024 * 1024

ImageTypes == ALLOWED_IMAGE_TYPES \cup {"svg+xml", "bmp", "PNG"}

TypeLength(type) ==
  CASE type \in {"png", "jpg", "gif", "bmp", "PNG"} -> 3
    [] type \in {"jpeg", "webp"} -> 4
    [] type = "svg+xml" -> 7
    [] OTHER -> 0

ImageDataUrl(type, encoding, chars, pad, other) ==
  [isString |-> TRUE, type |-> type, encoding |-> encoding,
   chars |-> chars, pad |-> pad, other |-> other,
   length |-> 11 + TypeLength(type) + (IF encoding = "base64" THEN 8 ELSE 1)
              + chars + pad + (IF other = "" THEN 0 ELSE 1)]

BodyLengths == {0, 1, 4, 2796200, 2796202, 2796203, 5242880}

ImageDataUrls ==
  {ImageDataUrl(type, encoding, chars, pad, other) :
     type \in ImageTypes, encoding \in {"base64", ""}, chars \in BodyLengths,
     pad \in 0..MaxPad, other \in {"", "!"}}
  \cup {[isString |-> TRUE, type |-> "", encoding |-> "", chars |-> 0, pad |-> 0,
         other |-> "", length |-> 0],
        [isString |-> FALSE, type |-> "", encoding |-> "", chars |-> 0, pad |-> 0,
         other |-> "", length |-> 0]}

\* DATA_URL_REGEX.test(dataUrl)
DATA_URL_REGEX(dataUrl) ==
  /\ dataUrl.type \in ALLOWED_IMAGE_TYPES
  /\ dataUrl.encoding = "base64"
  /\ dataUrl.chars >= 1
  /\ dataUrl.other = ""

validateImageDataUrl(dataUrl) ==
  IF ~dataUrl.isString \/ dataUrl.length = 0 THEN FALSE
  ELSE IF dataUrl.length > MAX_IMAGE_DATA_URL_SIZE THEN FALSE
  ELSE IF ~DATA_URL_REGEX(dataUrl) THEN FALSE
  ELSE LET base64DataLength == dataUrl.chars + dataUrl.pad
       IN \* estimatedByteSize = base64Data.length * 3 / 4 > MAX_IMAGE_SIZE
          IF base64DataLength * 3 > MAX_IMAGE_SIZE * 4 THEN FALSE
          ELSE TRUE

sanitizeImageDataUrl(dataUrl) ==
  IF validateImageDataUrl(dataUrl) THEN [null |-> FALSE, value |-> dataUrl]
  ELSE [null |-> TRUE]

Call_validateImageDataUrl ==
  /\ call.fn = "validateImageDataUrl"
  /\ Returns(validateImageDataUrl(call.input))
  /\ UNCHANGED <<viewVars, allowedDomains, nodeEnv>>

Call_sanitizeImageDataUrl ==
  /\ call.fn = "sanitizeImageDataUrl"
  /\ Returns(sanitizeImageDataUrl(call.input))
  /\ UNCHANGED <<viewVars, allowedDomains, nodeEnv>>

----------------------------------------------------------------------------
(* The utilities used on their own, before any viewer is mounted *)

NoViewer ==
  /\ mounted = FALSE
  /\ documentUrl = NoUrl
  /\ document = NoDoc
  /\ numPages = 0
  /\ isLoading = TRUE
  /\ error = ""
  /\ loads = <<>>
  /\ cur = 0
  /\ destroyed = {}
  /\ signatureFields = <<>>
  /\ fieldsPending = NoDoc
  /\ isDialogOpen = FALSE
  /\ currentField = ""
  /\ signatures = <<>>
  /\ currentIndex = 0
  /\ allSigned = FALSE
  /\ pageNumber = 1
  /\ pageDimensions = [p \in 1..MaxPages |-> 0]
  /\ pageRendered = FALSE
  /\ mode = "draw"
  /\ preview = ""
  /\ onErrorCalls = 0

\* the host configures the allow-list and then asks about one URL
UrlInit ==
  /\ \E env \in NodeEnvs :
       /\ nodeEnv = env
       /\ allowedDomains = ALLOWED_DOMAINS(env)
  /\ \E url \in TestUrls : call = Pending("validateDocumentUrl", url)
  /\ NoViewer

UrlNext ==
  \/ \E domain \in Domains : ~call.returned /\ addAllowedDomain(domain)
  \/ \E domain \in Domains : ~call.returned /\ removeAllowedDomain(domain)
  \/ Call_validateDocumentUrl

UrlSpec == UrlInit /\ [][UrlNext]_vars

\* the user has typed a text and presses Apply
TextInit ==
  /\ nodeEnv = "production"
  /\ allowedDomains = ALLOWED_DOMAINS("production")
  /\ \E text \in Texts : call = Pending("SignatureTyped.handleApply", text)
  /\ NoViewer

TextNext == SignatureTyped_handleApply

TextSpec == TextInit /\ [][TextNext]_vars

ImageInit ==
  /\ nodeEnv = "production"
  /\ allowedDomains = ALLOWED_DOMAINS("production")
  /\ \E fn \in {"validateImageDataUrl", "sanitizeImageDataUrl"}, dataUrl \in ImageDataUrls :
       call = Pending(fn, dataUrl)
  /\ NoViewer

ImageNext ==
  \/ Call_validateImageDataUrl
  \/ Call_sanitizeImageDataUrl

ImageSpec == ImageInit /\ [][ImageNext]_vars

----------------------------------------------------------------------------
(* extractSignatureFields on its own: it is asked about one PDF *)

\* annotations per page of the PDFs asked about
MaxAnnotations == 2

TestRects ==
  {Rect(<<Num(100), Num(600), Num(300), Num(650)>>),
   Rect(<<Num(0), Num(0), Num(10), Num(10)>>),
   Rect(<<Num(-100000), Num(0), Num(-90000), Num(10000)>>),
   NoRect,
   Rect(<<Num(100), Num(600), Num(300)>>),
   Rect(<<Num(100), Num(600), Num(300), Num(650), Num(0)>>),
   Rect(<<Num(100), Undefined, Num(300), Num(650)>>),
   Rect(<<Null, Null, Num(100), Num(50)>>),
   Rect(<<Num(100), Num(600), Infinite, Num(650)>>),
   Rect(<<Num(100001), Num(0), Num(100101), Num(50)>>),
   Rect(<<Num(0), Num(0), Num(5), Num(50)>>),
   Rect(<<Num(0), Num(0), Num(100), Num(10001)>>),
   Rect(<<Num(300), Num(600), Num(100), Num(650)>>)}

TestAnnotations ==
  {Annotation("Widget", "Sig", r, "undefined") : r \in TestRects}
    \cup {Annotation("Widget", "Sig", Rect(<<Num(100), Num(600), Num(300), Num(650)>>), "false"),
          Annotation("Widget", "Tx", Rect(<<Num(100), Num(600), Num(300), Num(650)>>), "true")}

\* two pages: the first holds the annotations under test, the second one
\* well-formed signature widget
TestPdfs ==
  {[numPages |-> 2, height |-> 842,
    pages |-> <<anns, <<Annotation("Widget", "Sig",
                                   Rect(<<Num(60), Num(100), Num(260), Num(160)>>), "true")>> >>] :
     anns \in UNION {[1..n -> TestAnnotations] : n \in 0..MaxAnnotations}}

Call_extractSignatureFields ==
  /\ call.fn = "extractSignatureFields"
  /\ Returns(extractSignatureFields(call.input))
  /\ UNCHANGED <<viewVars, allowedDomains, nodeEnv>>

FieldInit ==
  /\ NoViewer
  /\ nodeEnv = "production"
  /\ allowedDomains = ALLOWED_DOMAINS("production")
  /\ \E pdf \in TestPdfs : call = Pending("extractSignatureFields", pdf)

FieldNext == Call_extractSignatureFields

FieldSpec == FieldInit /\ [][FieldNext]_vars

----------------------------------------------------------------------------
(* signature-utils: createCFRCompliantSignature, and the capture components *)
(* that call it.  A string that may be missing is "undefined" when it is.   *)

DefaultIntent == "I approve this document"

\* props.signatureContext; supplied is FALSE for undefined
Context(signerName, signerId, documentHash, ipAddress) ==
  [supplied |-> TRUE, signerName |-> signerName, signerId |-> signerId,
   sessionId |-> "session-abc", documentHash |-> documentHash,
   authMethod |-> "okta_2fa", ipAddress |-> ipAddress]

NoContext ==
  [supplied |-> FALSE, signerName |-> "undefined", signerId |-> "undefined",
   sessionId |-> "undefined", documentHash |-> "undefined",
   authMethod |-> "undefined", ipAddress |-> "undefined"]

\* !value for a string that may be missing
Falsy(value) == value \in {"", "undefined"}

\* the hex SHA-256 of the JSON of the hashed fields, kept as those fields
generateSignatureHash(data) ==
  <<"sha256", data.type, data.data, data.timestamp, data.signerName, data.signerId,
    data.signerIntent, data.documentHash>>

\* the function has three parameters: a fourth argument is not read
createCFRCompliantSignature(baseData, context, intentArgument) ==
  LET signatureIntent == IF intentArgument = "undefined" THEN DefaultIntent
                         ELSE intentArgument
      partialData ==
        [type |-> baseData.type, data |-> baseData.data, timestamp |-> "now",
         userAgent |-> "navigator.userAgent",
         signerName |-> context.signerName, signerId |-> context.signerId,
         signerIntent |-> signatureIntent, authMethod |-> context.authMethod,
         documentHash |-> context.documentHash, sessionId |-> context.sessionId,
         ipAddress |-> context.ipAddress, signatureVersion |-> "1.0.0",
         deviceInfo |-> "navigator.platform"]
  IN IF Falsy(context.signerName) THEN Thrown("signerName is required for CFR Part 11 compliance")
     ELSE IF Falsy(context.signerId) THEN Thrown("signerId is required for CFR Part 11 compliance")
     ELSE IF Falsy(context.documentHash)
          THEN Thrown("documentHash is required for CFR Part 11 compliance")
     ELSE IF Falsy(signatureIntent)
          THEN Thrown("signatureIntent is required for CFR Part 11 compliance")
     ELSE [ok |-> TRUE,
           value |-> partialData @@ [signatureHash |-> generateSignatureHash(partialData)]]

\* variant: a failed stamping falls back to the placeholder record
CaptureApply_Fallback(type, dataUrl, props) ==
  LET minimal == [type |-> type, data |-> dataUrl, timestamp |-> "now",
                  userAgent |-> IF props.collectDeviceInfo THEN "navigator.userAgent"
                                ELSE "undefined",
                  signerName |-> "Not Provided", signerId |-> "not-provided",
                  signerIntent |-> props.defaultSignatureIntent, authMethod |-> "unknown",
                  signatureHash |-> "not-computed", documentHash |-> "not-provided",
                  sessionId |-> "not-provided", signatureVersion |-> "1.0.0",
                  ipAddress |-> "undefined", deviceInfo |-> "undefined"]
      stamped == createCFRCompliantSignature([type |-> type, data |-> dataUrl],
                   props.signatureContext, props.defaultSignatureIntent)
  IN IF props.signatureContext.supplied /\ stamped.ok
     THEN [onComplete |-> <<stamped.value>>, alert |-> FALSE]
     ELSE [onComplete |-> <<minimal>>, alert |-> FALSE]

\* what handleApply of SignatureCanvas and of SignatureTyped does with the
\* data URL of its canvas: the records it passes to onComplete, and whether
\* it alerts
CaptureApply(type, dataUrl, props) ==
  IF props.signatureContext.supplied
  THEN LET stamped == createCFRCompliantSignature([type |-> type, data |-> dataUrl],
                        props.signatureContext, props.defaultSignatureIntent)
       IN IF stamped.ok THEN [onComplete |-> <<stamped.value>>, alert |-> FALSE]
          ELSE [onComplete |-> <<>>, alert |-> TRUE]
  ELSE [onComplete |->
          <<[type |-> type, data |-> dataUrl, timestamp |-> "now",
             userAgent |-> IF props.collectDeviceInfo THEN "navigator.userAgent"
                           ELSE "undefined",
             signerName |-> "Not Provided", signerId |-> "not-provided",
             signerIntent |-> props.defaultSignatureIntent, authMethod |-> "unknown",
             signatureHash |-> "not-computed", documentHash |-> "not-provided",
             sessionId |-> "not-provided", signatureVersion |-> "1.0.0",
             ipAddress |-> "undefined", deviceInfo |-> "undefined"]>>,
        alert |-> FALSE]

\* the props of a capture component: the defaults stand in for what is not passed
CaptureProps(signatureContext, defaultSignatureIntent, collectDeviceInfo) ==
  [signatureContext |-> signatureContext,
   defaultSignatureIntent |-> IF defaultSignatureIntent = "undefined" THEN DefaultIntent
                              ELSE defaultSignatureIntent,
   collectDeviceInfo |-> collectDeviceInfo]

\* SignatureDialog passes onComplete and onCancel to the capture component
\* and nothing else
DialogCaptureProps(dialogProps) == CaptureProps(NoContext, "undefined", FALSE)

\* the data URLs a canvas hands to the stamping
PngDataUrl == ImageDataUrl("png", "base64", 4, 0, "")
SvgDataUrl == ImageDataUrl("svg+xml", "base64", 4, 0, "")

Contexts ==
  {Context(signerName, signerId, documentHash, ipAddress) :
     signerName \in {"", "John Doe"}, signerId \in {"", "user-123"},
     documentHash \in {"", "doc-hash-xyz"}, ipAddress \in {"undefined", "203.0.113.42"}}

Intents == {"undefined", "", DefaultIntent}

Call_createCFRCompliantSignature ==
  /\ call.fn = "createCFRCompliantSignature"
  /\ Returns(createCFRCompliantSignature(call.input.baseData, call.input.context,
                                         call.input.signatureIntent))
  /\ UNCHANGED <<viewVars, allowedDomains, nodeEnv>>

\* handleApply of a capture component that was given its props directly
Call_handleApply ==
  /\ call.fn = "SignatureCanvas.handleApply"
  /\ Returns(CaptureApply("drawn", call.input.dataUrl,
               CaptureProps(call.input.signatureContext, call.input.defaultSignatureIntent,
                            call.input.collectDeviceInfo)))
  /\ UNCHANGED <<viewVars, allowedDomains, nodeEnv>>

\* a capture made in the dialog of a viewer that was given these props
Call_SignatureDialog ==
  /\ call.fn = "SignatureDialog"
  /\ Returns(CaptureApply(IF call.input.mode = "draw" THEN "drawn" ELSE "typed",
                          call.input.dataUrl, DialogCaptureProps(call.input)))
  /\ UNCHANGED <<viewVars, allowedDomains, nodeEnv>>

StampInit ==
  /\ NoViewer
  /\ nodeEnv = "production"
  /\ allowedDomains = ALLOWED_DOMAINS("production")
  /\ \/ \E type \in {"drawn", "typed"}, dataUrl \in {PngDataUrl, SvgDataUrl},
           context \in Contexts, intent \in Intents, collectDeviceInfo \in BOOLEAN :
          call = Pending("createCFRCompliantSignature",
                         [baseData |-> [type |-> type, data |-> dataUrl],
                          context |-> context, signatureIntent |-> intent,
                          collectDeviceInfo |-> collectDeviceInfo])
     \/ \E dataUrl \in {PngDataUrl, SvgDataUrl}, context \in Contexts \cup {NoContext},
           intent \in Intents, collectDeviceInfo \in BOOLEAN :
          call = Pending("SignatureCanvas.handleApply",
                         [dataUrl |-> dataUrl, signatureContext |-> context,
                          defaultSignatureIntent |-> intent,
                          collectDeviceInfo |-> collectDeviceInfo])
     \/ \E m \in {"draw", "type"}, context \in Contexts \cup {NoContext},
           intent \in Intents :
          call = Pending("SignatureDialog",
                         [mode |-> m, dataUrl |-> PngDataUrl, signatureContext |-> context,
                          defaultSignatureIntent |-> intent])

StampNext ==
  \/ Call_createCFRCompliantSignature
  \/ Call_handleApply
  \/ Call_SignatureDialog

StampSpec == StampInit /\ [][StampNext]_vars

----------------------------------------------------------------------------
(* Properties *)

RequiredIds(fields) == {fields[i].id : i \in {j \in DOMAIN fields : fields[j].required}}
UnsignedIndexes == {i \in DOMAIN signatureFields :
                      signatureFields[i].id \notin Keys(signatures)}
FirstOf(S) == CHOOSE i \in S : \A j \in S : i <= j
AnnotationsFor(fieldId) ==
  {i \in DOMAIN getSignatures.annotations :
     getSignatures.annotations[i].id = <<fieldId, "annotation">>}
ExportedIds == Keys(signatures) \cap Ids(signatureFields)

\* C1: allSigned is true if and only if the field list has at least one
\* required field and every required field has a ledger entry.
C1_AllSignedIffRequiredSigned ==
  allSigned = (/\ RequiredIds(signatureFields) # {}
               /\ RequiredIds(signatureFields) \subseteq Keys(signatures))

\* C2: allSigned has the value it would have with the ledger keys that have
\* no field in the field list removed.
C2_OrphansExcludedFromCount ==
  allSigned = AllSignedOf(signatureFields, ExportedIds)

\* C3: every key of the signature ledger is the id of a field in the current
\* field list.
C3_LedgerKeysAreFieldIds ==
  Keys(signatures) \subseteq Ids(signatureFields)

\* C4: a load that is in flight when the URL changes or the viewer unmounts
\* is marked cancelled, and when a cancelled load settles the document,
\* page count, error and loading state stay as they were.
C4_LateResultNeverPublished ==
  [][/\ \A l \in DOMAIN loads :
          (loads[l].status = "pending" /\ loads[l].cancelled
             /\ loads'[l].status # "pending")
          => UNCHANGED hookVars
     /\ (mounted /\ cur # 0 /\ loads[cur].status = "pending"
           /\ (~mounted' \/ documentUrl' # documentUrl))
        => loads'[cur].cancelled]_vars

C4_Witness ==
  /\ mounted
  /\ \E l \in DOMAIN loads : loads[l].late /\ cur # 0 /\ cur # l

\* C5: a document whose load resolves after the load was cancelled is
\* destroyed in the step in which it resolves; no resolved load of a
\* cancelled effect has an undestroyed document.
C5_LateDocumentDestroyed ==
  \A l \in DOMAIN loads :
    (loads[l].status = "resolved" /\ loads[l].cancelled) => l \in destroyed

C5_Witness ==
  \E l \in DOMAIN loads :
    loads[l].late /\ loads[l].status = "resolved" /\ l \in destroyed

\* C6: a step that unmounts the viewer or changes the document URL leaves
\* the document held from the completed load destroyed.
C6_CleanupDestroysHeldDocument ==
  [][(mounted /\ (~mounted' \/ documentUrl' # documentUrl))
     => /\ document # NoDoc => document.id \in destroyed'
        /\ \A l \in DOMAIN loads :
             loads[l].loadedDocument # 0 => loads[l].loadedDocument \in destroyed']_vars

C6_Witness ==
  \E l \in DOMAIN loads :
    loads[l].status = "resolved" /\ ~loads[l].late /\ l \in destroyed

\* C7: while the dialog is open for one field, it stays bound to that field
\* until it is closed (cancelled or applied).
C7_DialogStaysBound ==
  [][(isDialogOpen /\ currentField # "" /\ isDialogOpen')
     => currentField' = currentField]_vars

\* C8: the export does not throw and has exactly one annotation for each
\* ledger entry whose field is in the field list, and neither annotation nor
\* attachment for any other ledger entry.
C8_ExportExcludesOrphans ==
  /\ ~getSignatures.threw
  /\ Len(getSignatures.annotations) = Cardinality(ExportedIds)
  /\ \A fieldId \in FieldIds :
       Cardinality(AnnotationsFor(fieldId)) = IF fieldId \in ExportedIds THEN 1 ELSE 0
  /\ \A a \in getSignatures.attachments :
       \E fieldId \in ExportedIds : a = <<fieldId, "attachment">>

C8_Witness ==
  /\ Keys(signatures) \ Ids(signatureFields) # {}
  /\ ExportedIds # {}
  /\ Len(getSignatures.annotations) = 1
  /\ getSignatures.attachments # {}

\* C9: with no required field in the field list, allSigned is false.
C9_NoRequiredNeverAllSigned ==
  RequiredIds(signatureFields) = {} => ~allSigned

C9_Witness ==
  /\ Len(signatureFields) > 0
  /\ RequiredIds(signatureFields) = {}
  /\ signatures # <<>>
  /\ ~allSigned

\* C10: nextSignature returns the first field in list order without a ledger
\* entry, and none exactly when every field has a ledger entry.
C10_NextIsFirstUnsigned ==
  LET r == nextSignature(signatureFields, Keys(signatures))
  IN /\ (r = NoField) <=> (UnsignedIndexes = {})
     /\ UnsignedIndexes # {} =>
          /\ r.index = FirstOf(UnsignedIndexes) - 1
          /\ r.id = signatureFields[FirstOf(UnsignedIndexes)].id

C10_Witness ==
  /\ Len(signatureFields) = 2
  /\ hasSignature(signatures, signatureFields[1].id)
  /\ nextSignature(signatureFields, Keys(signatures)).index = 1
  /\ isDialogOpen
  /\ currentField = signatureFields[2].id
  /\ currentIndex = 1

\* C11: once every required field has a ledger entry, nextSignature returns
\* none, even when optional fields are still unsigned.
C11_NoneOnceRequiredSigned ==
  (/\ RequiredIds(signatureFields) # {}
   /\ RequiredIds(signatureFields) \subseteq Keys(signatures))
  => nextSignature(signatureFields, Keys(signatures)) = NoField

SignedIndexes == {i \in DOMAIN signatureFields :
                    signatureFields[i].id \in Keys(signatures)}
LastOf(S) == CHOOSE i \in S : \A j \in S : i >= j

\* C12: currentIndex starts at 0; a nextSignature call sets it to the index of
\* the first field without a ledger entry, a previousSignature call to the
\* index of the last field with a ledger entry, and a call that finds no such
\* field leaves it unchanged.
C12_CurrentIndexFollowsCalls ==
  /\ currentIndex = 0
  /\ [][((mounted /\ NextSignatureBody) =>
            (currentIndex' = IF UnsignedIndexes = {} THEN currentIndex
                             ELSE FirstOf(UnsignedIndexes) - 1))
        /\
        ((mounted /\ PreviousSignatureBody) =>
            (currentIndex' = IF SignedIndexes = {} THEN currentIndex
                             ELSE LastOf(SignedIndexes) - 1))]_vars

C12_Witness ==
  /\ Len(signatureFields) = 2
  /\ Len(signatures) = 2
  /\ signatures[1].id = signatureFields[2].id
  /\ signatures[2].id = signatureFields[1].id
  /\ currentIndex = 1
  /\ pageNumber = 2
  /\ ~isDialogOpen

\* C13: the error callback is invoked at most once with the error of a failed
\* load, however often the viewer is rendered again while that error is held,
\* and it has been invoked once whenever an error is held.
C13_ErrorReportedOnce ==
  mounted => onErrorCalls = IF error # "" THEN 1 ELSE 0

\* C14: a load attempt that is not superseded leaves the loading state: once
\* its promise has settled isLoading is false, with the error set if it
\* failed; an empty URL ends loading; and a mounted viewer that is loading
\* eventually is not loading any more (or has been unmounted).
C14_LoadingEnds ==
  /\ []((mounted /\ cur # 0 /\ loads[cur].status # "pending")
         => (~isLoading /\ (loads[cur].status = "rejected" => error # "")))
  /\ []((mounted /\ documentUrl = NoUrl) => ~isLoading)
  /\ ((mounted /\ isLoading) ~> (~mounted \/ ~isLoading))

C14_Witness ==
  /\ mounted
  /\ cur # 0
  /\ loads[cur].status = "rejected"
  /\ documentUrl # UrlBad
  /\ error = LoadError
  /\ ~isLoading

OnAllowList(hostname) ==
  \E i \in DOMAIN allowedDomains :
    \/ hostname = allowedDomains[i]
    \/ /\ Len(hostname) > Len(allowedDomains[i])
       /\ \A k \in 1..Len(allowedDomains[i]) :
            hostname[Len(hostname) - Len(allowedDomains[i]) + k] = allowedDomains[i][k]

WellFormedInput(url) ==
  url.isString /\ url.length > 0 /\ url.length <= MAX_URL_LENGTH /\ url.parses

\* C15: for an https URL validateDocumentUrl returns true exactly when the
\* hostname is an entry of the allow-list or a proper subdomain of one,
\* whatever addAllowedDomain / removeAllowedDomain calls came before.
C15_HttpsFollowsAllowList ==
  (call.fn = "validateDocumentUrl" /\ call.returned /\ WellFormedInput(call.input)
     /\ call.input.protocol = "https:")
  => call.result = OnAllowList(call.input.hostname)

C17_HttpLoopbackInDevelopment ==
  (call.fn = "validateDocumentUrl" /\ call.returned /\ WellFormedInput(call.input)
     /\ call.input.protocol = "http:")
  => call.result = (nodeEnv = "development" /\ call.input.hostname \in {Localhost, Loopback})

\* C18: a data: URL is accepted exactly when its MIME type is application/pdf,
\* it is base64-encoded with a well-formed body, and it is at most 10 MB long.
C18_DataUrlAcceptedIffPdfBase64 ==
  (call.fn = "validateDocumentUrl" /\ call.returned /\ call.input.isString /\ call.input.parses
     /\ call.input.protocol = "data:")
  => call.result = (/\ call.input.mime = "application/pdf"
                    /\ call.input.param = "base64"
                    /\ call.input.bodyValid
                    /\ call.input.length <= 10 * 1024 * 1024)

\* C19: sanitizeSignatureText returns the trimmed text when its length is
\* between 2 and 100 and each of its characters is a letter, space, hyphen,
\* apostrophe or period; otherwise it throws and onComplete is not called.
C19_TextAcceptedIffNameCharacters ==
  (call.fn = "SignatureTyped.handleApply" /\ call.returned) =>
    LET trimmed == Trim(call.input)
        valid == /\ Len(trimmed) >= 2
                 /\ Len(trimmed) <= 100
                 /\ \A i \in DOMAIN trimmed : trimmed[i] \in {"a", "Z", " ", "-", "'", "."}
    IN /\ call.result.sanitizedText.ok = valid
       /\ call.result.onComplete = valid
       /\ valid => call.result.sanitizedText.value = trimmed

\* C20: validateImageDataUrl accepts exactly the strings of the form
\* data:image/(png|jpeg|jpg|gif|webp);base64,<non-empty base64 body> that are
\* at most 5 MB long and whose body length times 3/4 is at most 2 MB, and
\* sanitizeImageDataUrl returns the input when it is valid and null otherwise.
C20_ImageAcceptedIffRasterBase64 ==
  LET valid(u) == /\ u.isString
                  /\ u.type \in {"png", "jpeg", "jpg", "gif", "webp"}
                  /\ u.encoding = "base64"
                  /\ u.chars >= 1
                  /\ u.other = ""
                  /\ u.length <= 5 * 1024 * 1024
                  /\ (u.chars + u.pad) * 3 <= 2 * 1024 * 1024 * 4
  IN /\ (call.fn = "validateImageDataUrl" /\ call.returned) => call.result = valid(call.input)
     /\ (call.fn = "sanitizeImageDataUrl" /\ call.returned) =>
          IF valid(call.input)
          THEN ~call.result.null /\ call.result.value = call.input
          ELSE call.result.null

C20_Witness ==
  /\ call.fn = "sanitizeImageDataUrl"
  /\ call.returned
  /\ call.input.type = "svg+xml"
  /\ call.input.encoding = "base64"
  /\ call.input.chars = 4
  /\ call.input.other = ""
  /\ call.result.null

----------------------------------------------------------------------------
(* Field extraction *)

\* a rect that is an array of exactly four finite numbers, each within
\* +-100,000, whose width and height lie in [10, 10,000]
WellFormedRect(rect) ==
  /\ rect.isArray
  /\ Len(rect.items) = 4
  /\ \A i \in 1..4 : rect.items[i].kind = "number" /\ Abs(rect.items[i].n) <= 100000
  /\ rect.items[3].n - rect.items[1].n \in 10..10000
  /\ rect.items[4].n - rect.items[2].n \in 10..10000

\* the Widget/Sig annotations of a page, in order
SigWidgets(annotations) ==
  SelectSeq(annotations, LAMBDA ann : ann.subtype = "Widget" /\ ann.fieldType = "Sig")

\* C21: extractSignatureFields returns, for every Widget/Sig annotation whose
\* rect is malformed (no array of exactly four finite numbers, a coordinate
\* beyond +-100,000, or a width or height outside [10, 10,000]), no field at
\* all, and for every well-formed one its field with the rect's box.
C21_MalformedRectYieldsNoField ==
  (call.fn = "extractSignatureFields" /\ call.returned) =>
    \A i \in 1..call.input.numPages :
      LET widgets == SigWidgets(call.input.pages[i])
      IN \A idx \in DOMAIN widgets :
           LET id == "sig-" \o ToString(i) \o "-" \o ToString(idx - 1)
               rect == widgets[idx].rect
           IN IF WellFormedRect(rect)
              THEN \E k \in DOMAIN call.result :
                     /\ call.result[k].id = id
                     /\ call.result[k].pageIndex = i - 1
                     /\ call.result[k].boundingBox =
                          [x |-> rect.items[1].n, y |-> rect.items[2].n,
                           width |-> rect.items[3].n - rect.items[1].n,
                           height |-> rect.items[4].n - rect.items[2].n]
              ELSE \A k \in DOMAIN call.result : call.result[k].id # id

----------------------------------------------------------------------------
(* Stamping *)

\* an identity field or the intent is the empty string
EmptyIdentity(context, intent) ==
  context.signerName = "" \/ context.signerId = "" \/ context.documentHash = ""
    \/ intent = ""

\* C22: createCFRCompliantSignature fails, returning no record, whenever
\* signerName, signerId, documentHash or the intent is empty; and a capture
\* component that was given a context and whose stamping fails passes nothing
\* to onComplete, in particular no placeholder record.
C22_EmptyIdentityFailsStamping ==
  /\ (/\ call.fn = "createCFRCompliantSignature"
      /\ call.returned
      /\ EmptyIdentity(call.input.context, call.input.signatureIntent))
       => ~call.result.ok
  /\ (/\ call.fn = "SignatureCanvas.handleApply"
      /\ call.returned
      /\ call.input.signatureContext.supplied)
       => /\ EmptyIdentity(call.input.signatureContext, call.input.defaultSignatureIntent)
               => call.result.onComplete = <<>>
          /\ \A i \in DOMAIN call.result.onComplete :
               call.result.onComplete[i].signatureHash # "not-computed"

C22_Witness ==
  /\ call.fn = "SignatureCanvas.handleApply"
  /\ call.returned
  /\ call.input.signatureContext.supplied
  /\ call.input.signatureContext.signerName = "John Doe"
  /\ call.input.signatureContext.signerId = ""
  /\ call.result.alert
  /\ call.result.onComplete = <<>>

\* C23: a record stamped without the opt-in (collectDeviceInfo false, the
\* default) holds no deviceInfo, no userAgent and no ipAddress.
C23_DeviceContextOnlyOnOptIn ==
  /\ (/\ call.fn = "createCFRCompliantSignature"
      /\ call.returned
      /\ call.result.ok
      /\ ~call.input.collectDeviceInfo)
       => /\ call.result.value.deviceInfo = "undefined"
          /\ call.result.value.userAgent = "undefined"
          /\ call.result.value.ipAddress = "undefined"
  /\ (/\ call.fn = "SignatureCanvas.handleApply"
      /\ call.returned
      /\ ~call.input.collectDeviceInfo)
       => \A i \in DOMAIN call.result.onComplete :
            /\ call.result.onComplete[i].deviceInfo = "undefined"
            /\ call.result.onComplete[i].userAgent = "undefined"
            /\ call.result.onComplete[i].ipAddress = "undefined"

\* C24: createCFRCompliantSignature fails, returning no record, when the
\* capture's image payload does not pass validateImageDataUrl.
C24_InvalidImageFailsStamping ==
  (/\ call.fn = "createCFRCompliantSignature"
   /\ call.returned
   /\ ~validateImageDataUrl(call.input.baseData.data))
    => ~call.result.ok

\* C29: a capture made in the dialog of a viewer that was given a
\* signatureContext with all required identity fields yields a stamped record:
\* it carries the context's signerName, signerId and documentHash and a
\* computed signatureHash; the placeholder record is yielded only when the
\* viewer was given no context.
C29_ViewerContextStampsRecords ==
  (call.fn = "SignatureDialog" /\ call.returned) =>
    \A i \in DOMAIN call.result.onComplete :
      LET record == call.result.onComplete[i]
          context == call.input.signatureContext
      IN /\ (context.supplied /\ ~EmptyIdentity(context, call.input.defaultSignatureIntent))
              => /\ record.signerName = context.signerName
                 /\ record.signerId = context.signerId
                 /\ record.documentHash = context.documentHash
                 /\ record.signatureHash = generateSignatureHash(record)
         /\ record.signatureHash = "not-computed" => ~context.supplied

----------------------------------------------------------------------------
(* Export geometry, document changes and page position *)

\* the URLs whose PDF has the field, as extractSignatureFields yields it
UrlsOfField(field) ==
  {u \in Urls : \E i \in DOMAIN FieldsOfUrl(u) :
                  FieldsOfUrl(u)[i] = [field EXCEPT !.signedBy = FALSE]}

\* C25: every exported annotation of a field of the document on display has
\* the bbox [x, H - y - height, x + width, H - y] of its field's box, where H
\* is the height of the field's own page when the viewer holds that page's
\* height, and 792 when it does not.
C25_ExportUsesOwnPageHeight ==
  LET export == getSignatures
  IN (mounted /\ ~export.threw /\ documentUrl = document.url) =>
       \A i \in DOMAIN export.annotations :
         LET a == export.annotations[i]
             field == signatureFields[FindField(signatureFields, a.id[1])]
             box == field.boundingBox
             actual == PageHeightOfUrl(document.url, field.pageIndex + 1)
             H == IF pageDimensions[field.pageIndex + 1] = actual THEN actual ELSE 792
         IN document.url \in UrlsOfField(field) =>
              a.bbox = <<box.x, H - box.y - box.height, box.x + box.width, H - box.y>>

\* C26: when the fields of a newly loaded document arrive, none of them is
\* shown as signed, none is exported and allSigned is false: nothing has been
\* applied to them yet.
C26_NewDocumentStartsUnsigned ==
  [][(/\ mounted'
      /\ fieldsPending # NoDoc
      /\ fieldsPending' = NoDoc
      /\ signatureFields' = FieldsOfUrl(fieldsPending.url))
       => (/\ \A i \in DOMAIN signatureFields' :
                ~hasSignature(signatures', signatureFields'[i].id)
           /\ getSignatures'.annotations = <<>>
           /\ ~allSigned')]_vars

\* C27: handleApply writes the preview under currentField, so a capture is
\* applied to the field it was made for only if the dialog is not bound to
\* another field while the capture awaits Apply.
C27_CaptureKeepsItsField ==
  [][(/\ preview # ""
      /\ preview' # ""
      /\ isDialogOpen'
      /\ currentField # ""
      /\ currentField' # "")
       => currentField' = currentField]_vars

\* C28: once loading has finished, the hook does not expose a document on
\* which destroy() has been called.
C28_NoDestroyedDocumentExposed ==
  (mounted /\ ~isLoading) => document.id \notin destroyed

\* C30: once a document is loaded, pageNumber is within 1..numPages.
C30_PageNumberWithinDocument ==
  (mounted /\ ~isLoading /\ error = "" /\ document # NoDoc) => pageNumber \in 1..numPages

====
